---- MODULE Spec2Model ----
(***************************************************************************)
(* The client-side state of the EduSphar landing page                      *)
(* (frontend/src/pages/EduSpharLanding.jsx): the useTheme hook (two        *)
(* instances: Header and EduSpharLanding), the AnnouncementBar and the     *)
(* useRafCounter hook.                                                     *)
(*                                                                         *)
(* A React handler is one action: the state update, the re-render and the  *)
(* effects React runs for that commit (children before parents, in hook    *)
(* order).  The host (window, document, localStorage, matchMedia,          *)
(* requestAnimationFrame) is an environment chosen when the page loads.    *)
(***************************************************************************)
EXTENDS Integers, FiniteSets, Sequences, TLC

VARIABLES
    \* ---- page: useTheme (x2) and AnnouncementBar
    env,          \* the host of this page load: [win, ls, os]
    store,        \* localStorage: key -> string, Null when the key is absent
    theme,        \* useTheme's state, one per instance
    dismissed,    \* AnnouncementBar's state
    rootDark,     \* document.documentElement.classList.contains("dark")
    uncaught,     \* an exception escaped a render or an effect of the page
    storeAtLoad,  \* history: the store as the last mount found it
    hist,         \* history: the last two events, each [ev, before, persisted]
    \* ---- useRafCounter
    cEnv,         \* the host of the counter: "browser", "nowindow" or "noraf"
    mounted,      \* the component that uses the hook is mounted
    target,       \* the target prop
    duration,     \* the duration prop
    targetRef,    \* targetRef.current
    val,          \* the displayed value (useState)
    start,        \* the run's start timestamp; 0 is null
    rafId,        \* the run's rafId; 0 is null
    rafQueue,     \* ids of the frame callbacks the host holds pending
    clock,        \* timestamp of the last animation frame
    cUncaught,    \* an exception escaped an effect of the counter
    cHist,        \* history: the last two events of the counter
    valBefore,    \* history: val before the last event
    \* ---- useScrollHeader
    sWin,         \* typeof window is not "undefined"
    sMounted,     \* the Header is mounted
    scrollY,      \* window.scrollY
    lastY,        \* the effect's lastY
    shrunk,       \* the hook's state
    sRafId,       \* the effect's rafId; 0 is null
    sQueue,       \* ids of the frame callbacks the host holds pending
    listening,    \* onScroll is a scroll listener of window
    sHist,        \* history: the last two events, each [ev, y, ran]
    \* ---- Header: the mobile nav sheet
    mobileOpen,   \* the Header's mobileOpen state
    focus,        \* document.activeElement
    prev,         \* the effect's prev; Null while there is none
    keyHandlers,  \* how many keydown listeners of document the effect holds
    opens,        \* history: how often the sheet was opened
    nLast         \* history: the last event and the state it found

pageVars == <<env, store, theme, dismissed, rootDark, uncaught, storeAtLoad, hist>>
counterVars == <<cEnv, mounted, target, duration, targetRef, val, start, rafId,
                 rafQueue, clock, cUncaught, cHist, valBefore>>
scrollVars == <<sWin, sMounted, scrollY, lastY, shrunk, sRafId, sQueue, listening, sHist>>
navVars == <<mobileOpen, focus, prev, keyHandlers, opens, nLast>>
vars == <<pageVars, counterVars, scrollVars, navVars>>
notPageVars == <<counterVars, scrollVars, navVars>>
notCounterVars == <<pageVars, scrollVars, navVars>>
notScrollVars == <<pageVars, counterVars, navVars>>
notNavVars == <<pageVars, counterVars, scrollVars>>

(***************************************************************************)
(* The host                                                                *)
(***************************************************************************)
ThemeKey == "edusphar-theme"
AnnounceKey == "edusphar-announce-dismissed"
Keys == {ThemeKey, AnnounceKey}

\* getItem's answer for an absent key, and the value of window.localStorage?.getItem?.()
\* when window.localStorage is undefined
Null == "null"
Undefined == "undefined"

Themes == {"dark", "light"}

\* What a page load may find stored: nothing, a value this code wrote, or (theme) a
\* value it did not write.
ThemeValues == {Null, "dark", "light", "auto"}
AnnounceValues == {Null, "0", "1"}
Stores == {s \in [Keys -> ThemeValues \cup AnnounceValues] :
             s[ThemeKey] \in ThemeValues /\ s[AnnounceKey] \in AnnounceValues}

\* window.localStorage of a page load: working; undefined; every access throws;
\* only reads throw; only writes throw (quota, private browsing).
LsModes == {"ok", "missing", "throws", "readthrows", "writethrows"}
\* window.matchMedia("(prefers-color-scheme: dark)"): matches, does not, or
\* window.matchMedia is undefined.
OsSignals == {"dark", "light", "absent"}
Envs == {[win |-> TRUE, ls |-> m, os |-> o] : m \in LsModes, o \in OsSignals}
          \cup {[win |-> FALSE, ls |-> "missing", os |-> "absent"]}

GetItemThrows(e) == e.ls \in {"throws", "readthrows"}
SetItemThrows(e) == e.ls \in {"throws", "writethrows"}
\* window.localStorage?.getItem?.(k), when it does not throw
GetItem(e, s, k) == IF e.ls = "missing" THEN Undefined ELSE s[k]
CanRead(e) == e.win /\ e.ls \in {"ok", "writethrows"}
CanWrite(e) == e.win /\ e.ls \in {"ok", "readthrows"}

(***************************************************************************)
(* useTheme                                                                *)
(***************************************************************************)
Inst == {"header", "landing"}

ThemeGetInitial_OsFirst(e, s) ==
    IF ~e.win \/ GetItemThrows(e) THEN "light"
    ELSE IF e.os = "dark" THEN "dark"
    ELSE IF GetItem(e, s, ThemeKey) \in Themes THEN GetItem(e, s, ThemeKey)
    ELSE "light"

\* getInitial: an exception of the try block lands in the empty catch and
\* falls to the final return "light".
ThemeGetInitial(e, s) ==
    IF ~e.win THEN "light"
    ELSE IF GetItemThrows(e) THEN "light"
    ELSE LET stored == GetItem(e, s, ThemeKey)
         IN  IF stored = "dark" \/ stored = "light" THEN stored
             ELSE IF e.os = "dark" THEN "dark"
             ELSE "light"

\* The effect's try block: [store, threw].
ThemePersist(e, s, t) ==
    IF ~e.win \/ e.ls = "missing" THEN [store |-> s, threw |-> FALSE]
    ELSE IF SetItemThrows(e) THEN [store |-> s, threw |-> TRUE]
    ELSE [store |-> [s EXCEPT ![ThemeKey] = t], threw |-> FALSE]

ThemeEffect_NoCatch(e, root, s, t) ==
    [root  |-> IF e.win THEN (t = "dark") ELSE root,
     store |-> ThemePersist(e, s, t).store,
     threw |-> ThemePersist(e, s, t).threw]

ThemeEffect_NoClass(e, root, s, t) ==
    [root  |-> root,
     store |-> ThemePersist(e, s, t).store,
     threw |-> FALSE]

\* The effect on [theme]: the class on the root, then the write, whose
\* exception the catch swallows.  [root, store, threw]
ThemeEffect(e, root, s, t) ==
    [root  |-> IF e.win THEN (t = "dark") ELSE root,
     store |-> ThemePersist(e, s, t).store,
     threw |-> FALSE]

toggle_ToDark(t) == "dark"

\* toggle's updater
toggle(t) == IF t = "dark" THEN "light" ELSE "dark"

(***************************************************************************)
(* AnnouncementBar                                                         *)
(***************************************************************************)
AnnounceGetInitial(e, s) ==
    IF ~e.win THEN FALSE
    ELSE IF GetItemThrows(e) THEN FALSE
    ELSE GetItem(e, s, AnnounceKey) = "1"

AnnounceEffect_Skip(e, s, d) == [store |-> s, threw |-> FALSE]

\* The effect on [dismissed]: [store, threw]
AnnounceEffect(e, s, d) ==
    IF ~e.win \/ e.ls = "missing" \/ SetItemThrows(e)
    THEN [store |-> s, threw |-> FALSE]
    ELSE [store |-> [s EXCEPT ![AnnounceKey] = IF d THEN "1" ELSE "0"],
          threw |-> FALSE]

\* if (dismissed) return null
BannerRendered == ~dismissed

(***************************************************************************)
(* The page: mount, and the handlers                                       *)
(***************************************************************************)
\* First render and its effects on a fresh document: AnnouncementBar's and
\* Header's (children) before EduSpharLanding's.
Mount(e, s) ==
    LET t == ThemeGetInitial(e, s)
        d == AnnounceGetInitial(e, s)
        a == AnnounceEffect(e, s, d)
        h == ThemeEffect(e, FALSE, a.store, t)
        l == ThemeEffect(e, h.root, h.store, t)
    IN  [theme     |-> [i \in Inst |-> t],
         dismissed |-> d,
         rootDark  |-> l.root,
         store     |-> l.store,
         uncaught  |-> a.threw \/ h.threw \/ l.threw]

NoEvent == [ev |-> "none", before |-> [i \in Inst |-> "light"], persisted |-> Null]
Event(name, before, s) == [ev |-> name, before |-> before, persisted |-> s[ThemeKey]]

\* The hook is not under study: no window delivers it frames.
CounterIdle ==
    /\ cEnv = "nowindow"
    /\ mounted = FALSE
    /\ target = 0
    /\ duration = 1
    /\ targetRef = 0
    /\ val = 0
    /\ start = 0
    /\ rafId = 0
    /\ rafQueue = {}
    /\ clock = 1
    /\ cUncaught = FALSE
    /\ cHist = <<"none", "none">>
    /\ valBefore = 0

PageInit ==
    \E e \in Envs, s \in Stores :
        LET m == Mount(e, s)
        IN  /\ env = e
            /\ storeAtLoad = s
            /\ theme = m.theme
            /\ dismissed = m.dismissed
            /\ rootDark = m.rootDark
            /\ store = m.store
            /\ uncaught = m.uncaught
            /\ hist = <<NoEvent, Event("mount", m.theme, m.store)>>

\* The page is loaded again, in any host: state is rebuilt from the store.
Reload ==
    \E e \in Envs :
        LET m == Mount(e, store)
        IN  /\ env' = e
            /\ storeAtLoad' = store
            /\ theme' = m.theme
            /\ dismissed' = m.dismissed
            /\ rootDark' = m.rootDark
            /\ store' = m.store
            /\ uncaught' = m.uncaught
            /\ hist' = <<hist[2], Event("mount", m.theme, m.store)>>
            /\ UNCHANGED notPageVars

\* A click on the "Toggle theme" button of instance i.
Toggle(i) ==
    /\ ~uncaught
    /\ LET t == toggle(theme[i])
           r == ThemeEffect(env, rootDark, store, t)
       IN  /\ theme' = [theme EXCEPT ![i] = t]
           /\ rootDark' = r.root
           /\ store' = r.store
           /\ uncaught' = r.threw
           /\ hist' = <<hist[2], Event(i, theme, r.store)>>
    /\ UNCHANGED <<env, dismissed, storeAtLoad>>
    /\ UNCHANGED notPageVars

ToggleHeader == Toggle("header")
ToggleLanding == Toggle("landing")

\* A click on "Dismiss": the button exists only while the banner is rendered.
Dismiss ==
    /\ ~uncaught
    /\ BannerRendered
    /\ LET r == AnnounceEffect(env, store, TRUE)
       IN  /\ dismissed' = TRUE
           /\ store' = r.store
           /\ uncaught' = r.threw
           /\ hist' = <<hist[2], Event("dismiss", theme, r.store)>>
    /\ UNCHANGED <<env, theme, rootDark, storeAtLoad>>
    /\ UNCHANGED notPageVars

(***************************************************************************)
(* useRafCounter                                                           *)
(***************************************************************************)
MaxTarget == 3
MaxDuration == 3
MaxDt == 2
MaxClock == 8

Targets == 0..MaxTarget
Durations == 1..MaxDuration
\* "browser": window and requestAnimationFrame; "nowindow": typeof window is
\* "undefined"; "noraf": a window without requestAnimationFrame.
CounterEnvs == {"browser", "nowindow", "noraf"}

\* requestAnimationFrame's return value: an id no pending callback has
FreshId(q) == CHOOSE n \in 1..(Cardinality(q) + 1) : n \notin q

TargetRefEffect_Stale(tref, t) == tref

\* The effect on [target]: targetRef.current = target
TargetRefEffect(tref, t) == t

Cleanup_NoCancel(id, q) == q

\* The cleanup of the effect on [duration, target]
Cleanup(id, q) == IF id # 0 THEN q \ {id} ELSE q

\* The body of the effect on [duration, target], run after the cleanup of
\* the previous one: [val, start, rafId, queue, threw]
RunEffect(e, v, tref, q) ==
    IF e = "nowindow"
    THEN [val |-> tref, start |-> 0, rafId |-> 0, queue |-> q, threw |-> FALSE]
    ELSE IF e = "noraf"
    THEN [val |-> v, start |-> 0, rafId |-> 0, queue |-> q, threw |-> TRUE]
    ELSE [val |-> v, start |-> 0, rafId |-> FreshId(q),
          queue |-> q \cup {FreshId(q)}, threw |-> FALSE]

Current_NoClamp(elapsed, d, tref) == (elapsed * tref) \div d

\* Math.floor(Math.min(elapsed / duration, 1) * targetRef.current), in exact
\* arithmetic, for elapsed >= 0, d > 0 and tref >= 0
Current(elapsed, d, tref) ==
    IF elapsed >= d THEN tref ELSE (elapsed * tref) \div d

Reschedules_Always(elapsed, d) == TRUE

\* progress < 1
Reschedules(elapsed, d) == elapsed < d

\* step(ts), the callback of the pending frame: [val, start, rafId, queue]
step(ts) ==
    LET s0 == IF start = 0 THEN ts ELSE start
        elapsed == ts - s0
        q0 == rafQueue \ {rafId}
    IN  [val   |-> Current(elapsed, duration, targetRef),
         start |-> s0,
         rafId |-> IF Reschedules(elapsed, duration) THEN FreshId(q0) ELSE rafId,
         queue |-> IF Reschedules(elapsed, duration) THEN q0 \cup {FreshId(q0)} ELSE q0]

PageIdle ==
    /\ env = [win |-> TRUE, ls |-> "ok", os |-> "light"]
    /\ store = [k \in Keys |-> Null]
    /\ theme = [i \in Inst |-> "light"]
    /\ dismissed = FALSE
    /\ rootDark = FALSE
    /\ uncaught = FALSE
    /\ storeAtLoad = [k \in Keys |-> Null]
    /\ hist = <<NoEvent, NoEvent>>

\* The state after the first render and its effects.  An exception that
\* escapes an effect unmounts the tree.
CounterInit ==
    \E e \in CounterEnvs, t \in Targets, d \in Durations :
        LET r == RunEffect(e, 0, t, {})
        IN  /\ cEnv = e
            /\ target = t
            /\ duration = d
            /\ targetRef = t
            /\ val = r.val
            /\ start = r.start
            /\ rafId = r.rafId
            /\ rafQueue = r.queue
            /\ cUncaught = r.threw
            /\ mounted = ~r.threw
            /\ clock = 1
            /\ cHist = <<"none", "mount">>
            /\ valBefore = 0

\* The host's next animation frame, dt after the last one: it runs the
\* pending callback, if any, with the frame's timestamp.
AnimationFrame(dt) ==
    /\ cEnv = "browser"
    /\ clock + dt <= MaxClock
    /\ clock' = clock + dt
    /\ IF rafQueue # {}
       THEN LET r == step(clock + dt)
            IN  /\ val' = r.val
                /\ start' = r.start
                /\ rafId' = r.rafId
                /\ rafQueue' = r.queue
                /\ cHist' = <<cHist[2], "step">>
       ELSE /\ UNCHANGED <<val, start, rafId, rafQueue>>
            /\ cHist' = <<cHist[2], "idle">>
    /\ valBefore' = val
    /\ UNCHANGED <<cEnv, mounted, target, duration, targetRef, cUncaught>>
    /\ UNCHANGED notCounterVars

Frame == \E dt \in 1..MaxDt : AnimationFrame(dt)

\* A render with another target: the effect on [target], then the cleanup
\* and the body of the effect on [duration, target].  A run is only started
\* where the clock leaves it the time to end.
ChangeTarget(t) ==
    /\ mounted
    /\ t # target
    /\ clock + MaxDt + duration <= MaxClock
    /\ LET tref == TargetRefEffect(targetRef, t)
           r == RunEffect(cEnv, val, tref, Cleanup(rafId, rafQueue))
       IN  /\ target' = t
           /\ targetRef' = tref
           /\ val' = r.val
           /\ start' = r.start
           /\ rafId' = r.rafId
           /\ rafQueue' = r.queue
           /\ cUncaught' = r.threw
    /\ cHist' = <<cHist[2], "change">>
    /\ valBefore' = val
    /\ UNCHANGED <<cEnv, mounted, duration, clock>>
    /\ UNCHANGED notCounterVars

Rerender == \E t \in Targets : ChangeTarget(t)

\* The component is unmounted: the cleanup runs.
Unmount ==
    /\ mounted
    /\ mounted' = FALSE
    /\ rafQueue' = Cleanup(rafId, rafQueue)
    /\ cHist' = <<cHist[2], "unmount">>
    /\ valBefore' = val
    /\ UNCHANGED <<cEnv, target, duration, targetRef, val, start, rafId, clock, cUncaught>>
    /\ UNCHANGED notCounterVars

(***************************************************************************)
(* useScrollHeader                                                         *)
(***************************************************************************)
\* Header: useScrollHeader(48)
Threshold == 48

\* The offsets the window is scrolled to
ScrollYs == {0, Threshold - 1, Threshold, Threshold + 1, 2 * Threshold}

onScroll_NoCancel(y, id, q) ==
    [lastY |-> y, rafId |-> FreshId(q), queue |-> q \cup {FreshId(q)}]

\* onScroll, with window.scrollY = y: [lastY, rafId, queue]
onScroll(y, id, q) ==
    LET q0 == IF id # 0 THEN q \ {id} ELSE q
    IN  [lastY |-> y, rafId |-> FreshId(q0), queue |-> q0 \cup {FreshId(q0)}]

ShrunkFor_AtLeast(y) == y >= Threshold

\* The frame callback's argument of setShrunk: lastY > threshold
ShrunkFor(y) == y > Threshold

ScrollCleanup_NoCancel(id, q) == q

\* The effect's cleanup, after removeEventListener
ScrollCleanup(id, q) == IF id # 0 THEN q \ {id} ELSE q

ScrollEvent(name, y, n) == [ev |-> name, y |-> y, ran |-> n]

\* The hook is not under study: no window delivers it events.
ScrollIdle ==
    /\ sWin = FALSE
    /\ sMounted = FALSE
    /\ scrollY = 0
    /\ lastY = 0
    /\ shrunk = FALSE
    /\ sRafId = 0
    /\ sQueue = {}
    /\ listening = FALSE
    /\ sHist = <<ScrollEvent("none", 0, 0), ScrollEvent("none", 0, 0)>>

\* The state after the first render and its effect, on a page scrolled to y.
ScrollInit ==
    \E w \in BOOLEAN, y \in ScrollYs :
        /\ sWin = w
        /\ sMounted = TRUE
        /\ scrollY = IF w THEN y ELSE 0
        /\ lastY = IF w THEN y ELSE 0
        /\ shrunk = FALSE
        /\ sRafId = 0
        /\ sQueue = {}
        /\ listening = w
        /\ sHist = <<ScrollEvent("none", 0, 0), ScrollEvent("mount", IF w THEN y ELSE 0, 0)>>

\* The window is scrolled to y and the scroll event is dispatched.
ScrollTo(y) ==
    /\ sWin
    /\ y # scrollY
    /\ scrollY' = y
    /\ IF listening
       THEN LET r == onScroll(y, sRafId, sQueue)
            IN  /\ lastY' = r.lastY
                /\ sRafId' = r.rafId
                /\ sQueue' = r.queue
       ELSE UNCHANGED <<lastY, sRafId, sQueue>>
    /\ sHist' = <<sHist[2], ScrollEvent("scroll", y, 0)>>
    /\ UNCHANGED <<sWin, sMounted, shrunk, listening>>
    /\ UNCHANGED notScrollVars

Scroll == \E y \in ScrollYs : ScrollTo(y)

\* The host's next animation frame: every pending callback runs.
ScrollFrame ==
    /\ sWin
    /\ shrunk' = IF sQueue # {} THEN ShrunkFor(lastY) ELSE shrunk
    /\ sQueue' = {}
    /\ sHist' = <<sHist[2], ScrollEvent("frame", scrollY, Cardinality(sQueue))>>
    /\ UNCHANGED <<sWin, sMounted, scrollY, lastY, sRafId, listening>>
    /\ UNCHANGED notScrollVars

\* The Header is unmounted: the effect's cleanup runs (there is none where
\* there is no window).
ScrollUnmount ==
    /\ sMounted
    /\ sMounted' = FALSE
    /\ listening' = FALSE
    /\ sQueue' = IF sWin THEN ScrollCleanup(sRafId, sQueue) ELSE sQueue
    /\ sHist' = <<sHist[2], ScrollEvent("unmount", scrollY, 0)>>
    /\ UNCHANGED <<sWin, scrollY, lastY, shrunk, sRafId>>
    /\ UNCHANGED notScrollVars

(***************************************************************************)
(* Header: the mobile nav sheet                                            *)
(***************************************************************************)
MaxOpens == 3

\* What sheetRef.current.querySelectorAll('a,button,...') finds, in document
\* order: the close button, the four links and the sign-up button.
Sheet == <<"close", "courses", "programs", "pricing", "about", "signup">>
SheetSet == {Sheet[k] : k \in 1..Len(Sheet)}
\* Focusable elements of the page behind the overlay
PageEls == {"menuButton", "themeButton"}
\* document.body: document.activeElement when no element has the focus
Body == "body"
KeyNames == {"Escape", "Tab", "other"}

IndexOf(x) == IF x \in SheetSet THEN CHOOSE k \in 1..Len(Sheet) : Sheet[k] = x ELSE 0

NavOpenEffect_NoFocus(f, h) == [prev |-> f, focus |-> f, handlers |-> h + 1]

\* The effect's body when mobileOpen is true: [prev, focus, handlers]
NavOpenEffect(f, h) == [prev |-> f, focus |-> Sheet[1], handlers |-> h + 1]

NavCleanup_KeepListener(pv, f, h) ==
    [focus |-> IF pv \in PageEls \cup SheetSet THEN pv ELSE f, handlers |-> h]

\* The effect's cleanup: removeEventListener, then prev?.focus(), which does
\* nothing on an element that cannot take the focus.  [focus, handlers]
NavCleanup(pv, f, h) ==
    [focus |-> IF pv \in PageEls \cup SheetSet THEN pv ELSE f, handlers |-> h - 1]

\* {mobileOpen && ...}: the sheet leaves the document, and an element that
\* leaves the document loses the focus to the body.
AfterSheetLeft(f) == IF f \in SheetSet THEN Body ELSE f

onKey_NoEscape(key, shift, f) ==
    IF key = "Tab" /\ shift /\ IndexOf(f) = 1
    THEN [close |-> FALSE, prevented |-> TRUE, focus |-> Sheet[Len(Sheet)]]
    ELSE IF key = "Tab" /\ ~shift /\ IndexOf(f) = Len(Sheet)
    THEN [close |-> FALSE, prevented |-> TRUE, focus |-> Sheet[1]]
    ELSE [close |-> FALSE, prevented |-> FALSE, focus |-> f]

onKey_NoWrap(key, shift, f) ==
    [close |-> key = "Escape", prevented |-> FALSE, focus |-> f]

\* onKey(e), with document.activeElement = f: [close, prevented, focus]
onKey(key, shift, f) ==
    IF key = "Tab" /\ Len(Sheet) > 0 /\ shift /\ IndexOf(f) = 1
    THEN [close |-> FALSE, prevented |-> TRUE, focus |-> Sheet[Len(Sheet)]]
    ELSE IF key = "Tab" /\ Len(Sheet) > 0 /\ ~shift /\ IndexOf(f) = Len(Sheet)
    THEN [close |-> FALSE, prevented |-> TRUE, focus |-> Sheet[1]]
    ELSE [close |-> key = "Escape", prevented |-> FALSE, focus |-> f]

\* Where the host may move the focus on a Tab key that no handler prevented:
\* to the neighbour in document order; from the body or from the ends, to any
\* element a Tab can reach.
DefaultTab(shift, f, open) ==
    IF open /\ IndexOf(f) # 0 /\ ~shift /\ IndexOf(f) < Len(Sheet)
    THEN {Sheet[IndexOf(f) + 1]}
    ELSE IF open /\ IndexOf(f) # 0 /\ shift /\ IndexOf(f) > 1
    THEN {Sheet[IndexOf(f) - 1]}
    ELSE PageEls \cup (IF open THEN SheetSet ELSE {})

NavEvent(name, shift, prevented) ==
    [ev |-> name, shift |-> shift, prevented |-> prevented,
     open |-> mobileOpen, focus |-> focus, prev |-> prev]

NavIdle ==
    /\ mobileOpen = FALSE
    /\ focus = Body
    /\ prev = Null
    /\ keyHandlers = 0
    /\ opens = 0
    /\ nLast = [ev |-> "none", shift |-> FALSE, prevented |-> FALSE,
                open |-> FALSE, focus |-> Body, prev |-> Null]

\* useState(false); the effect on [mobileOpen] returns at once.
NavInit == NavIdle

\* A click on "Open menu": setMobileOpen(true), then the effect.
OpenMenu ==
    /\ ~mobileOpen
    /\ opens < MaxOpens
    /\ LET r == NavOpenEffect(focus, keyHandlers)
       IN  /\ mobileOpen' = TRUE
           /\ prev' = r.prev
           /\ focus' = r.focus
           /\ keyHandlers' = r.handlers
    /\ opens' = opens + 1
    /\ nLast' = NavEvent("openMenu", FALSE, FALSE)
    /\ UNCHANGED notNavVars

\* setMobileOpen(false) while open: the cleanup, and the sheet leaves.
CloseBy(name) ==
    /\ mobileOpen
    /\ LET r == NavCleanup(prev, focus, keyHandlers)
       IN  /\ mobileOpen' = FALSE
           /\ focus' = AfterSheetLeft(r.focus)
           /\ keyHandlers' = r.handlers
    /\ nLast' = NavEvent(name, FALSE, FALSE)
    /\ UNCHANGED <<prev, opens>>
    /\ UNCHANGED notNavVars

CloseButton == CloseBy("closeButton")
OverlayClick == CloseBy("overlay")

\* A key is pressed: the keydown listener, if there is one, then the host's
\* default action for a Tab that was not prevented.
KeyDown(key, shift) ==
    LET r == IF keyHandlers > 0 THEN onKey(key, shift, focus)
             ELSE [close |-> FALSE, prevented |-> FALSE, focus |-> focus]
        closes == r.close /\ mobileOpen
        c == NavCleanup(prev, r.focus, keyHandlers)
    IN  /\ mobileOpen' = IF closes THEN FALSE ELSE mobileOpen
        /\ keyHandlers' = IF closes THEN c.handlers ELSE keyHandlers
        /\ \E x \in (IF key = "Tab" /\ ~r.prevented
                     THEN DefaultTab(shift, focus, mobileOpen) ELSE {r.focus}) :
               focus' = IF closes THEN AfterSheetLeft(c.focus) ELSE x
        /\ nLast' = NavEvent(key, shift, r.prevented)
        /\ UNCHANGED <<prev, opens>>
        /\ UNCHANGED notNavVars

Key == \E key \in KeyNames, shift \in BOOLEAN : KeyDown(key, shift)

\* A pointer press inside the open sheet: on one of its elements, or on a
\* place that cannot take the focus, which leaves it to the body.
PointerInSheet(x) ==
    /\ mobileOpen
    /\ x # focus
    /\ focus' = x
    /\ nLast' = NavEvent("pointer", FALSE, FALSE)
    /\ UNCHANGED <<mobileOpen, prev, keyHandlers, opens>>
    /\ UNCHANGED notNavVars

Pointer == \E x \in SheetSet \cup {Body} : PointerInSheet(x)

\* A pointer press on the page while the sheet is closed.
PointerOnPage(x) ==
    /\ ~mobileOpen
    /\ x # focus
    /\ focus' = x
    /\ nLast' = NavEvent("pointer", FALSE, FALSE)
    /\ UNCHANGED <<mobileOpen, prev, keyHandlers, opens>>
    /\ UNCHANGED notNavVars

PagePointer == \E x \in PageEls \cup {Body} : PointerOnPage(x)

(***************************************************************************)
(* Specifications                                                          *)
(***************************************************************************)
Init == PageInit /\ CounterIdle /\ ScrollIdle /\ NavIdle

Next ==
    \/ Reload
    \/ ToggleHeader
    \/ ToggleLanding
    \/ Dismiss

Spec == Init /\ [][Next]_vars

InitCounter == PageIdle /\ CounterInit /\ ScrollIdle /\ NavIdle

NextCounter ==
    \/ Frame
    \/ Rerender
    \/ Unmount

SpecCounter == InitCounter /\ [][NextCounter]_vars

\* The host keeps delivering animation frames.
FairSpecCounter == SpecCounter /\ WF_vars(Frame)

InitScroll == PageIdle /\ CounterIdle /\ ScrollInit /\ NavIdle

NextScroll ==
    \/ Scroll
    \/ ScrollFrame
    \/ ScrollUnmount

SpecScroll == InitScroll /\ [][NextScroll]_vars

\* The two hooks that schedule frame callbacks.  They share no state: one
\* of them runs, the other is not mounted.
InitHooks ==
    \/ PageIdle /\ CounterInit /\ ScrollIdle /\ NavIdle
    \/ PageIdle /\ CounterIdle /\ ScrollInit /\ NavIdle

NextHooks ==
    \/ Frame
    \/ Rerender
    \/ Unmount
    \/ Scroll
    \/ ScrollFrame
    \/ ScrollUnmount

SpecHooks == InitHooks /\ [][NextHooks]_vars

InitNav == PageIdle /\ CounterIdle /\ ScrollIdle /\ NavInit

NextNav ==
    \/ OpenMenu
    \/ CloseButton
    \/ OverlayClick
    \/ Key
    \/ Pointer
    \/ PagePointer

SpecNav == InitNav /\ [][NextNav]_vars

(***************************************************************************)
(* Properties                                                              *)
(***************************************************************************)

\* C1 (Spec): after a mount whose read of the store does not throw, every
\* useTheme instance holds the stored theme when that is "dark" or "light",
\* whatever the OS signal; otherwise "dark" if the OS signal reports dark and
\* "light" if it reports light or is absent.
C1_GetInitialPrecedence ==
    (hist[2].ev = "mount" /\ ~GetItemThrows(env)) =>
        \A i \in Inst :
            /\ GetItem(env, storeAtLoad, ThemeKey) \in Themes
                   => theme[i] = storeAtLoad[ThemeKey]
            /\ (GetItem(env, storeAtLoad, ThemeKey) \notin Themes /\ env.os = "dark")
                   => theme[i] = "dark"
            /\ (GetItem(env, storeAtLoad, ThemeKey) \notin Themes /\ env.os # "dark")
                   => theme[i] = "light"

C1_Witness ==
    /\ hist[2].ev = "mount"
    /\ env.ls = "ok"
    /\ env.os = "dark"
    /\ storeAtLoad[ThemeKey] = "light"
    /\ theme["header"] = "light"

\* C2 (Spec): with writable storage, two toggle() calls in a row on one
\* instance bring its theme back to the value before the first, the first
\* having changed it, and after each call the theme key holds the value
\* that call produced.
C2_ToggleTwice ==
    \A i \in Inst :
        (hist[1].ev = i /\ hist[2].ev = i /\ CanWrite(env)) =>
            /\ theme[i] = hist[1].before[i]
            /\ hist[2].before[i] # hist[1].before[i]
            /\ hist[1].persisted = hist[2].before[i]
            /\ store[ThemeKey] = theme[i]

C2_Witness ==
    /\ hist[1].ev = "header"
    /\ hist[2].ev = "header"
    /\ CanWrite(env)
    /\ theme["header"] = "dark"
    /\ store[ThemeKey] = "dark"

\* C3 (Spec): once the effect of a mount or of a toggle of instance i has
\* run with writable storage, the root carries the dark class exactly when
\* that instance's theme is "dark", and the theme key equals that theme.
C3_EffectApplied ==
    \A i \in Inst :
        (hist[2].ev \in {i, "mount"} /\ CanWrite(env)) =>
            /\ rootDark <=> (theme[i] = "dark")
            /\ store[ThemeKey] = theme[i]

C3_Witness ==
    /\ hist[2].ev = "landing"
    /\ CanWrite(env)
    /\ hist[2].before["landing"] = "light"
    /\ theme["landing"] = "dark"
    /\ rootDark
    /\ store[ThemeKey] = "dark"

\* C4 (Spec): in a browser whose localStorage is missing or throws on every
\* access, no mount and no toggle lets an exception escape, each toggle
\* flips the instance's theme, and the root's dark class follows the theme
\* of the instance that mounted or toggled.
C4_StorageUnavailable ==
    (env.win /\ env.ls \in {"missing", "throws"}) =>
        /\ ~uncaught
        /\ \A i \in Inst :
            /\ hist[2].ev = i => theme[i] # hist[2].before[i]
            /\ hist[2].ev \in {i, "mount"} => (rootDark <=> (theme[i] = "dark"))

C4_Witness ==
    /\ env.win
    /\ env.ls = "throws"
    /\ hist[2].ev = "header"
    /\ theme["header"] = "dark"
    /\ rootDark
    /\ store[ThemeKey] # "dark"

C6_FlagNeverReset ==
    [][store[AnnounceKey] = "1" => store'[AnnounceKey] = "1"]_vars

\* floor(min(1, elapsed / d) * t), for elapsed >= 0, d > 0 and t >= 0
Displayed(elapsed, d, t) ==
    IF elapsed >= d THEN t
    ELSE CHOOSE n \in 0..t : n * d <= elapsed * t /\ elapsed * t < (n + 1) * d

\* C7 (SpecCounter): every frame of a run displays
\* floor(min(1, elapsed / duration) * target), elapsed counted from the
\* run's first frame; the first frame displays 0 and no later frame of the
\* run displays less than the one before, nor more than target.
C7_FrameValue ==
    [][(cHist'[2] = "step" /\ clock' # clock) =>
          /\ start' = IF cHist[2] \in {"mount", "change"} THEN clock' ELSE start
          /\ val' = Displayed(clock' - start', duration, target)
          /\ cHist[2] \in {"mount", "change"} => val' = 0
          /\ cHist[2] = "step" => val' >= val
          /\ val' <= target]_vars

C7_Witness ==
    /\ cHist = <<"step", "step">>
    /\ clock - start < duration
    /\ val > valBefore
    /\ val < target

\* C8 (FairSpecCounter): while frames keep coming, a run whose target does
\* not change reaches a frame with elapsed >= duration; such a frame displays
\* exactly target and leaves no frame callback pending.
C8_Terminates ==
    /\ \A t \in Targets :
           (mounted /\ rafQueue # {} /\ target = t)
               ~> (\/ (cHist[2] = "step" /\ clock - start >= duration
                         /\ val = t /\ rafQueue = {})
                   \/ target # t
                   \/ ~mounted)
    /\ [](cHist[2] = "step" /\ clock - start >= duration
            => val = target /\ rafQueue = {})

C8_Witness ==
    /\ cHist[2] = "step"
    /\ clock - start >= duration
    /\ target > 1
    /\ val = target
    /\ valBefore < target
    /\ rafQueue = {}

\* C9 (SpecCounter): a change of target leaves one pending callback, that
\* of a new run with no start yet and the new target; the new run's first
\* frame displays 0 with zero elapsed, whatever was displayed before.
C9_RestartFromZero ==
    /\ []((cHist[2] = "change" /\ cEnv = "browser") =>
            /\ start = 0
            /\ targetRef = target
            /\ rafId # 0
            /\ rafQueue = {rafId})
    /\ [][(cHist[2] = "change" /\ cHist'[2] = "step") =>
            /\ val' = 0
            /\ start' = clock']_vars

C9_Witness ==
    /\ cHist = <<"change", "step">>
    /\ valBefore > 0
    /\ val = 0
    /\ start = clock
    /\ rafQueue # {}

\* C10 (SpecCounter): where there is no requestAnimationFrame, the hook
\* displays target at once, schedules no frame and lets no exception escape.
C10_NoRafInstant ==
    cEnv \in {"nowindow", "noraf"} =>
        /\ val = target
        /\ rafQueue = {}
        /\ ~cUncaught

\* C11 (SpecScroll): a frame that runs the pending callback sets shrunk to
\* TRUE exactly when the offset of the latest scroll event is above the
\* threshold; an offset at or below it gives FALSE.
C11_ShrunkThreshold ==
    (sHist[2].ev = "frame" /\ sHist[2].ran > 0) =>
        /\ scrollY > Threshold => shrunk
        /\ scrollY <= Threshold => ~shrunk

C11_Witness ==
    /\ sHist[2].ev = "frame"
    /\ sHist[2].ran = 1
    /\ scrollY = Threshold
    /\ ~shrunk

\* C12 (SpecScroll): however many scroll events come between two frames, at
\* most one callback is pending, a frame runs at most one, and the one it
\* runs uses the offset of the last scroll event before it.
C12_Coalesced ==
    /\ Cardinality(sQueue) <= 1
    /\ sHist[2].ev = "frame" => sHist[2].ran <= 1
    /\ (sHist[2].ev = "frame" /\ sHist[2].ran = 1) =>
           /\ sHist[1].ev = "scroll"
           /\ shrunk <=> (sHist[1].y > Threshold)

C12_Witness ==
    /\ sHist[1].ev = "scroll"
    /\ sHist[2].ev = "scroll"
    /\ sHist[1].y > Threshold
    /\ sHist[2].y < Threshold
    /\ listening
    /\ Cardinality(sQueue) = 1

\* C19 (SpecHooks): once useScrollHeader is torn down its listener is gone
\* and no callback of it is pending; once a useRafCounter run is torn down
\* no callback is pending, and once it is superseded only the new run's is;
\* after a teardown neither shrunk nor the displayed value changes.
C19_Teardown ==
    /\ [](/\ ~sMounted => (~listening /\ sQueue = {})
          /\ ~mounted => rafQueue = {}
          /\ cHist[2] = "change" => rafQueue \subseteq {rafId})
    /\ [][/\ ~sMounted => shrunk' = shrunk
          /\ ~mounted => val' = val]_vars

C19_Witness ==
    /\ sHist[1].ev = "scroll"
    /\ sHist[2].ev = "unmount"
    /\ sWin
    /\ sRafId # 0
    /\ sQueue = {}
    /\ ~listening

\* C13 (SpecNav): the sheet is closed or open and starts closed; it opens
\* only on the open-menu trigger; the close button, an overlay click and the
\* Escape key each close an open sheet; no other event changes the state, and
\* Escape on a closed sheet changes nothing.
C13_SheetStates ==
    /\ mobileOpen \in BOOLEAN
    /\ nLast.ev = "none" => ~mobileOpen
    /\ (~nLast.open /\ mobileOpen) => nLast.ev = "openMenu"
    /\ (~nLast.open /\ nLast.ev = "openMenu") => mobileOpen
    /\ (nLast.open /\ nLast.ev \in {"closeButton", "overlay", "Escape"}) => ~mobileOpen
    /\ (nLast.open /\ ~mobileOpen) => nLast.ev \in {"closeButton", "overlay", "Escape"}
    /\ (~nLast.open /\ nLast.ev = "Escape") =>
           (~mobileOpen /\ focus = nLast.focus /\ keyHandlers = 0)

C13_Witness ==
    /\ nLast.ev = "Escape"
    /\ nLast.open
    /\ ~mobileOpen
    /\ opens = 2

\* C14 (SpecNav): when the sheet opens, the element that had the focus is
\* captured in prev and the focus moves to the first focusable element of
\* the sheet.
C14_OpenCapturesAndFocuses ==
    (nLast.ev = "openMenu" /\ ~nLast.open) =>
        /\ mobileOpen
        /\ prev = nLast.focus
        /\ focus = Sheet[1]

C14_Witness ==
    /\ nLast.ev = "openMenu"
    /\ nLast.focus = "menuButton"
    /\ prev = "menuButton"
    /\ focus = "close"
    /\ mobileOpen

\* C15 (SpecNav): whenever the sheet goes from open to closed, by the close
\* button, an overlay click or Escape, the focus is afterwards on the element
\* that was captured when the sheet opened.
C15_FocusRestored ==
    (nLast.open /\ ~mobileOpen) => focus = nLast.prev

\* C16 (SpecNav): while the sheet is open, Tab on its last element moves the
\* focus to its first and Shift+Tab on its first moves it to its last; on
\* every other element of the sheet the key is not prevented and the focus
\* makes the default move to the next or the previous element.
C16_TabWraps ==
    (nLast.ev = "Tab" /\ nLast.open /\ nLast.focus \in SheetSet) =>
        LET k == IndexOf(nLast.focus)
        IN  /\ (~nLast.shift /\ k = Len(Sheet)) => (nLast.prevented /\ focus = Sheet[1])
            /\ (nLast.shift /\ k = 1) => (nLast.prevented /\ focus = Sheet[Len(Sheet)])
            /\ (~nLast.shift /\ k < Len(Sheet)) => (~nLast.prevented /\ focus = Sheet[k + 1])
            /\ (nLast.shift /\ k > 1) => (~nLast.prevented /\ focus = Sheet[k - 1])

C16_Witness ==
    /\ nLast.ev = "Tab"
    /\ ~nLast.shift
    /\ nLast.open
    /\ nLast.focus = Sheet[Len(Sheet)]
    /\ focus = Sheet[1]

\* C17 (SpecNav): while the sheet is open, the focus is never on an element
\* of the page behind the overlay.
C17_FocusStaysInSheet ==
    mobileOpen => focus \notin PageEls

\* C18 (SpecNav): the sheet holds one keydown listener of the document while
\* it is open and none while it is closed, however often it was opened.
C18_OneHandlerWhileOpen ==
    keyHandlers = IF mobileOpen THEN 1 ELSE 0

C18_Witness ==
    /\ opens = MaxOpens
    /\ mobileOpen
    /\ keyHandlers = 1
    /\ nLast.ev = "Tab"

\* C20 (Spec): a mount leaves the persisted theme key as it found it; only a
\* toggle changes it.
C20_MountLeavesThemeKey ==
    hist[2].ev = "mount" => store[ThemeKey] = storeAtLoad[ThemeKey]

\* C21 (Spec): when the stored theme cannot be read, because localStorage is
\* missing or because the read throws, a mount takes the theme from the OS
\* signal: "dark" if the OS reports dark, "light" otherwise.
C21_UnreadableFallsToOs ==
    (hist[2].ev = "mount" /\ env.win /\ (env.ls = "missing" \/ GetItemThrows(env))) =>
        \A i \in Inst : theme[i] = IF env.os = "dark" THEN "dark" ELSE "light"

\* C22 (Spec): after every click on either toggle, in a browser, both
\* useTheme instances hold the same theme, the root's dark class matches it,
\* and the click has flipped the root's dark class.
C22_InstancesAgree ==
    [][(hist'[2].ev \in Inst /\ env.win) =>
           /\ theme'["header"] = theme'["landing"]
           /\ rootDark' <=> (theme'["header"] = "dark")
           /\ rootDark' # rootDark]_vars

\* C23 (SpecCounter): in every state of a mounted useRafCounter the
\* displayed value lies between 0 and the current target.
C23_ValWithinTarget ==
    mounted => (0 <= val /\ val <= target)

\* C24 (SpecScroll): in every state of a mounted useScrollHeader with no
\* frame callback pending, shrunk equals (scrollY > threshold).
C24_ShrunkDerived ==
    (sMounted /\ sQueue = {}) => (shrunk <=> (scrollY > Threshold))

====
